---- MODULE Spec2Model ----
(***************************************************************************)
(* A model of the Qt bridge of v2/internal/frontend/desktop/qt/lib.cpp:    *)
(* host threads call the C functions, the application thread created by    *)
(* Application_new constructs the QApplication, runs its event loop and    *)
(* executes the lambdas the bridge functions post to it.                   *)
(***************************************************************************)
EXTENDS Integers, Sequences, FiniteSets, TLC

(* ------------------------------ bounds -------------------------------- *)

\* Bridge calls (after Application_new) made by all host threads together.
MaxCalls == 2
\* Calls of Window_new.
MaxWindows == 1

(* ----------------------------- constants ------------------------------ *)

Hosts == {"h1", "h2"}
AppThread == "app"

nullptr == 0
\* The indeterminate value of an uninitialised local pointer.
Uninit == -1
\* The address of the QApplication object.
AppPtr == 1

DefaultWidth == 800
DefaultHeight == 600
DefaultMinWidth == 320
DefaultMinHeight == 240

Urls == {"u1", "u2"}
Titles == {"t"}
Scripts == {"js"}
\* Arguments of Window_resize and Window_set_minimum_size.
Dims == {<<100, 100>>, <<1000, 700>>}

\* The screens the toolkit reports; the first is the primary screen.
Screens ==
  << [id |-> 1, w |-> 1920, h |-> 1080], [id |-> 2, w |-> 1280, h |-> 720] >>
PrimaryScreen == 1

VARIABLES
  newPc,        \* position of the caller inside Application_new
  newCaller,    \* the host thread that called Application_new
  qtApp,        \* Application_new's local qtApp
  appRet,       \* the pointer Application_new returned
  appPc,        \* position of the application thread's lambda
  queue,        \* the SafeQueue<QApplication *> of Application_new
  events,       \* posted events of the application thread, FIFO
  hist,         \* the milestones of Application_new, in order of occurrence
  hop,          \* per host: the bridge function it is in
  hstage,       \* per host: idle | blocked | unblocked
  hwin,         \* per host: Window_new's local win
  hurl,         \* per host: Window_new's parameter start_url
  hres,         \* per host: Application_get_screens's local res
  hblob,        \* per host: the char * Application_get_screens returned
  hread,        \* per host: what the host read through that pointer
  ncalls,       \* bridge calls made so far
  objs,         \* toolkit objects created by Window_new, by address
  structs,      \* Window structs allocated by Window_new, by address
  known,        \* addresses of Window structs returned to the host
  blobs,        \* byte buffers of QByteArray, by address
  badAccess,    \* the host read or freed storage that was already released
  lastToolkit,  \* the last toolkit call: which one, on which thread, for whom
  quitFlag,     \* the event loop was asked to exit
  quitCause,    \* none | Application_quit | lastWindowClosed
  execRet,      \* the value exec() returned (-1: has not returned)
  appExitedCalls, \* number of invocations of the host callback appExited
  appExitedArg,   \* its argument
  appExitedThread \* the thread that invoked it

vars ==
  << newPc, newCaller, qtApp, appRet, appPc, queue, events, hist, hop, hstage,
     hwin, hurl, hres, hblob, hread, ncalls, objs, structs, known, blobs, badAccess,
     lastToolkit, quitFlag, quitCause, execRet, appExitedCalls, appExitedArg,
     appExitedThread >>

newVars == << newPc, newCaller, qtApp, appRet >>
appVars == << quitFlag, quitCause, execRet, appExitedCalls, appExitedArg,
              appExitedThread >>
hostVars == << hop, hstage, hwin, hurl, hres, hblob, hread, ncalls >>
heapVars == << objs, structs, known, blobs, badAccess >>

(* ------------------------------ values -------------------------------- *)

NullQString == [null |-> TRUE, text |-> << >>]
NoToolkit == [op |-> "none", thread |-> "none", caller |-> "none"]
Toolkit(op, thread, caller) == [op |-> op, thread |-> thread, caller |-> caller]

Event(op, caller, obj, x, y, s) ==
  [op |-> op, caller |-> caller, obj |-> obj, x |-> x, y |-> y, s |-> s]

Max(a, b) == IF a >= b THEN a ELSE b

Init ==
  /\ newPc = "idle"
  /\ newCaller = "none"
  /\ qtApp = nullptr
  /\ appRet = nullptr
  /\ appPc = "none"
  /\ queue = << >>
  /\ events = << >>
  /\ hist = << >>
  /\ hop = [h \in Hosts |-> "none"]
  /\ hstage = [h \in Hosts |-> "idle"]
  /\ hwin = [h \in Hosts |-> nullptr]
  /\ hurl = [h \in Hosts |-> ""]
  /\ hres = [h \in Hosts |-> NullQString]
  /\ hblob = [h \in Hosts |-> nullptr]
  /\ hread = [h \in Hosts |-> "none"]
  /\ ncalls = 0
  /\ objs = << >>
  /\ structs = << >>
  /\ known = {}
  /\ blobs = << >>
  /\ badAccess = FALSE
  /\ lastToolkit = NoToolkit
  /\ quitFlag = FALSE
  /\ quitCause = "none"
  /\ execRet = -1
  /\ appExitedCalls = 0
  /\ appExitedArg = -1
  /\ appExitedThread = "none"

(* ------------------ util.hpp: SafeQueue, runOnAppThread ---------------- *)

\* SafeQueue<T>::enqueue: append under the queue's lock and wake a waiter.
Enqueue(q, v) == Append(q, v)
\* SafeQueue<T>::dequeue blocks while the queue is empty, then pops the front.
CanDequeue(q) == q # << >>
Front(q) == Head(q)
Rest(q) == Tail(q)

\* runOnAppThread(obj, fn[, ret]): post fn to the event loop of the thread obj
\* lives on (every object of the bridge is created on the application thread)
\* and block the caller until fn has run there; with ret, store fn's result.
RunOnAppThread(h, op, ev) ==
  /\ hstage[h] = "idle"
  /\ newPc = "returned"
  /\ ncalls < MaxCalls
  /\ events' = Append(events, ev)
  /\ hop' = [hop EXCEPT ![h] = op]
  /\ hstage' = [hstage EXCEPT ![h] = "blocked"]
  /\ ncalls' = ncalls + 1

\* The event loop delivers the posted events in order, one at a time, while
\* exec() runs.
Delivers(op) ==
  /\ appPc = "exec"
  /\ events # << >>
  /\ Head(events).op = op

\* The blocked caller of a void bridge function resumes and returns.
Resume(h) ==
  /\ hstage' = [hstage EXCEPT ![h] = "idle"]
  /\ hop' = [hop EXCEPT ![h] = "none"]

(* --------------------------- Application_new --------------------------- *)

Milestone(m) == hist' = Append(hist, m)

\* lib.cpp 30-38: make the queue and start the application thread.
Application_new(h) ==
  /\ newPc = "idle"
  /\ newPc' = "wait_app"
  /\ newCaller' = h
  /\ appPc' = "start"
  /\ UNCHANGED << qtApp, appRet, queue, events, hist, hostVars, heapVars,
                  lastToolkit, appVars >>

\* lib.cpp 39-41, application thread: new QApplication.
AppThread_construct ==
  /\ appPc = "start"
  /\ appPc' = "constructed"
  /\ Milestone("construct")
  /\ UNCHANGED << newVars, queue, events, hostVars, heapVars, lastToolkit,
                  appVars >>

\* lib.cpp 42, application thread: queue->enqueue(app).
AppThread_enqueue ==
  /\ appPc = "constructed"
  /\ appPc' = "handed"
  /\ queue' = Enqueue(queue, AppPtr)
  /\ Milestone("hand")
  /\ UNCHANGED << newVars, events, hostVars, heapVars, lastToolkit, appVars >>

\* lib.cpp 43, application thread: app->exec() starts the event loop.
AppThread_exec ==
  /\ appPc = "handed"
  /\ appPc' = "exec"
  /\ Milestone("loop")
  /\ UNCHANGED << newVars, queue, events, hostVars, heapVars, lastToolkit,
                  appVars >>

\* lib.cpp 46, caller: qtApp = queue->dequeue().
New_dequeue_app ==
  /\ newPc = "wait_app"
  /\ CanDequeue(queue)
  /\ qtApp' = Front(queue)
  /\ queue' = Rest(queue)
  /\ newPc' = "have_app"
  /\ Milestone("recv")
  /\ UNCHANGED << newCaller, appRet, appPc, events, hostVars, heapVars,
                  lastToolkit, appVars >>

\* lib.cpp 49, caller: QTimer::singleShot(0, qtApp, ...) posts the callback to
\* the thread of qtApp.
New_singleShot ==
  /\ newPc = "have_app"
  /\ events' = Append(events, Event("timer", newCaller, qtApp, 0, 0, ""))
  /\ newPc' = "wait_timer"
  /\ UNCHANGED << newCaller, qtApp, appRet, appPc, queue, hist, hostVars,
                  heapVars, lastToolkit, appVars >>

\* lib.cpp 49, application thread: the callback runs, queue->enqueue(nullptr).
TimerCallback ==
  /\ Delivers("timer")
  /\ events' = Tail(events)
  /\ queue' = Enqueue(queue, nullptr)
  /\ Milestone("timer")
  /\ UNCHANGED << newVars, appPc, hostVars, heapVars, lastToolkit, appVars >>

\* A caller that does not wait for the callback.
New_return_nowait ==
  /\ newPc = "wait_timer"
  /\ newPc' = "returned"
  /\ appRet' = qtApp
  /\ Milestone("return")
  /\ UNCHANGED << newCaller, qtApp, appPc, queue, events, hostVars, heapVars,
                  lastToolkit, appVars >>

\* lib.cpp 50-51, caller: queue->dequeue(); return qtApp.
New_return ==
  /\ newPc = "wait_timer"
  /\ CanDequeue(queue)
  /\ queue' = Rest(queue)
  /\ newPc' = "returned"
  /\ appRet' = qtApp
  /\ Milestone("return")
  /\ UNCHANGED << newCaller, qtApp, appPc, events, hostVars, heapVars,
                  lastToolkit, appVars >>

\* lib.cpp 43, application thread: exec() returns once the loop was asked to
\* exit; quit() is exit(0).
AppThread_execReturn ==
  /\ appPc = "exec"
  /\ quitFlag
  /\ appPc' = "exited"
  /\ execRet' = 0
  /\ UNCHANGED << newVars, queue, events, hist, hostVars, heapVars,
                  lastToolkit, quitFlag, quitCause, appExitedCalls,
                  appExitedArg, appExitedThread >>

\* A thread that reports a fixed code instead of exec()'s.
AppThread_appExited_fixed ==
  /\ appPc = "exited"
  /\ appPc' = "done"
  /\ appExitedCalls' = appExitedCalls + 1
  /\ appExitedArg' = 1
  /\ appExitedThread' = AppThread
  /\ UNCHANGED << newVars, queue, events, hist, hostVars, heapVars,
                  lastToolkit, quitFlag, quitCause, execRet >>

\* lib.cpp 43, application thread: appExited(<value of exec()>).
AppThread_appExited ==
  /\ appPc = "exited"
  /\ appPc' = "done"
  /\ appExitedCalls' = appExitedCalls + 1
  /\ appExitedArg' = execRet
  /\ appExitedThread' = AppThread
  /\ UNCHANGED << newVars, queue, events, hist, hostVars, heapVars,
                  lastToolkit, quitFlag, quitCause, execRet >>

(* ------------------------- toolkit behaviour --------------------------- *)

\* new QWidget(): a hidden top-level widget of the toolkit's default size.
NewWidget(by) ==
  [kind |-> "QWidget", parent |-> nullptr, by |-> by, holds |-> nullptr,
   width |-> 640, height |-> 480, minWidth |-> 0, minHeight |-> 0,
   visible |-> FALSE, minimized |-> FALSE, maximized |-> FALSE,
   fullscreen |-> FALSE, title |-> "", url |-> "", script |-> "",
   reloaded |-> FALSE]

\* new QVBoxLayout(w) followed by addWidget(view).
NewLayout(by, w, view) ==
  [NewWidget(by) EXCEPT !.kind = "QVBoxLayout", !.parent = w, !.holds = view,
                        !.width = 0, !.height = 0]

\* new QWebEngineView(w)
NewView(by, w) ==
  [NewWidget(by) EXCEPT !.kind = "QWebEngineView", !.parent = w,
                        !.width = 0, !.height = 0]

\* QWidget::resize keeps the size within the minimum size.
Resize(o, w, h) ==
  [o EXCEPT !.width = Max(w, o.minWidth), !.height = Max(h, o.minHeight)]

\* QWidget::setMinimumSize grows a widget that is smaller than the new minimum.
SetMinimumSize(o, w, h) ==
  [o EXCEPT !.minWidth = w, !.minHeight = h,
            !.width = Max(o.width, w), !.height = Max(o.height, h)]

SetWindowTitle(o, t) == [o EXCEPT !.title = t]
Show(o) == [o EXCEPT !.visible = TRUE]
ShowMinimized(o) == [o EXCEPT !.visible = TRUE, !.minimized = TRUE]
ShowNormal(o) ==
  [o EXCEPT !.visible = TRUE, !.minimized = FALSE, !.maximized = FALSE,
            !.fullscreen = FALSE]
ToggleFullScreen(o) == [o EXCEPT !.fullscreen = ~o.fullscreen]
ToggleMaximized(o) == [o EXCEPT !.maximized = ~o.maximized]
Close(o) == [o EXCEPT !.visible = FALSE]
Load(o, url) == [o EXCEPT !.url = url, !.reloaded = FALSE]
Reload(o) == [o EXCEPT !.reloaded = TRUE]
RunJavaScript(o, js) == [o EXCEPT !.script = js]

\* A visible top-level window is left (QApplication::quitOnLastWindowClosed).
WindowLeft(os) ==
  \E a \in 1..Len(os) : os[a].kind = "QWidget" /\ os[a].visible

\* app->focusWidget(): the focused widget, or nullptr when no window has focus.
FocusWidget(os) ==
  LET shown == {a \in 1..Len(os) : /\ os[a].kind = "QWidget"
                                   /\ os[a].visible
                                   /\ ~os[a].minimized}
  IN  IF shown = {} THEN nullptr ELSE CHOOSE a \in shown : \A b \in shown : a <= b

(* ---------------------------- Application ------------------------------ *)

\* lib.cpp 54-57, host thread.
Application_quit(h) ==
  /\ RunOnAppThread(h, "Application_quit",
                    Event("Application_quit", h, appRet, 0, 0, ""))
  /\ UNCHANGED << newVars, appPc, queue, hist, hwin, hurl, hres, hblob, hread,
                  heapVars, lastToolkit, appVars >>

\* lib.cpp 56, application thread: app->quit().
QuitLambda ==
  /\ Delivers("Application_quit")
  /\ events' = Tail(events)
  /\ quitFlag' = TRUE
  /\ quitCause' = IF quitFlag THEN quitCause ELSE "Application_quit"
  /\ lastToolkit' = Toolkit("Application_quit", AppThread, Head(events).caller)
  /\ Resume(Head(events).caller)
  /\ UNCHANGED << newVars, appPc, queue, hist, hwin, hurl, hres, hblob, hread,
                  ncalls, heapVars, execRet, appExitedCalls, appExitedArg,
                  appExitedThread >>

\* lib.cpp 59-62, host thread: QString res; runOnAppThread(app, ..., &res).
Application_get_screens(h) ==
  /\ hblob[h] = nullptr
  /\ RunOnAppThread(h, "Application_get_screens",
                    Event("Application_get_screens", h, appRet, 0, 0, ""))
  /\ hres' = [hres EXCEPT ![h] = NullQString]
  /\ UNCHANGED << newVars, appPc, queue, hist, hwin, hurl, hblob, hread, heapVars,
                  lastToolkit, appVars >>

\* lib.cpp 76-97: the object of one screen; line 95 stores size as physicalSize.
ScreenJson(s, currentScreen) ==
  [isCurrent |-> currentScreen = s.id, isPrimary |-> s.id = PrimaryScreen,
   width |-> s.w, height |-> s.h,
   size |-> [width |-> s.w, height |-> s.h],
   physicalSize |-> [width |-> s.w, height |-> s.h]]

\* lib.cpp 74-100: QJsonDocument(arr).toJson(Compact) as a QString.
ScreensJson(currentScreen) ==
  [null |-> FALSE,
   text |-> [i \in 1..Len(Screens) |-> ScreenJson(Screens[i], currentScreen)]]

\* lib.cpp 62-101, application thread. currentScreen is assigned only when a
\* widget has focus (a window opens on the primary screen); otherwise it is
\* read uninitialised and compares equal to any screen or to none.
GetScreensLambda ==
  /\ Delivers("Application_get_screens")
  /\ events' = Tail(events)
  /\ \E cur \in IF FocusWidget(objs) # nullptr
                THEN {PrimaryScreen}
                ELSE {nullptr} \cup {Screens[i].id : i \in 1..Len(Screens)} :
       hres' = [hres EXCEPT ![Head(events).caller] = ScreensJson(cur)]
  /\ hstage' = [hstage EXCEPT ![Head(events).caller] = "unblocked"]
  /\ lastToolkit' =
       Toolkit("Application_get_screens", AppThread, Head(events).caller)
  /\ UNCHANGED << newVars, appPc, queue, hist, hop, hwin, hurl, hblob, hread, ncalls,
                  heapVars, appVars >>

\* lib.cpp 104, host thread: res.toLocal8Bit() makes a temporary QByteArray,
\* data() is the address of its bytes, and the temporary is destroyed, its
\* buffer released, at the end of the return statement.
Application_get_screens_return(h) ==
  /\ hstage[h] = "unblocked"
  /\ hop[h] = "Application_get_screens"
  /\ blobs' = Append(blobs, [live |-> FALSE, bytes |-> hres[h].text])
  /\ hblob' = [hblob EXCEPT ![h] = Len(blobs) + 1]
  /\ Resume(h)
  /\ UNCHANGED << newVars, appPc, queue, events, hist, hwin, hurl, hres, hread,
                  ncalls, objs, structs, known, badAccess, lastToolkit,
                  appVars >>

\* The host reads the C string it was given. Reading released storage yields
\* the old bytes or whatever replaced them.
HostReadBlob(h) ==
  /\ hblob[h] # nullptr
  /\ hread[h] = "none"
  /\ IF blobs[hblob[h]].live
     THEN hread' = [hread EXCEPT ![h] = "json"] /\ UNCHANGED badAccess
     ELSE /\ \E r \in {"json", "garbage"} : hread' = [hread EXCEPT ![h] = r]
          /\ badAccess' = TRUE
  /\ UNCHANGED << newVars, appPc, queue, events, hist, hop, hstage, hwin, hurl, hres,
                  hblob, ncalls, objs, structs, known, blobs, lastToolkit,
                  appVars >>

\* lib.cpp 268-270, host thread: free(ptr).
bye(h) ==
  /\ hblob[h] # nullptr
  /\ IF blobs[hblob[h]].live
     THEN /\ blobs' = [blobs EXCEPT ![hblob[h]].live = FALSE]
          /\ UNCHANGED badAccess
     ELSE badAccess' = TRUE /\ UNCHANGED blobs
  /\ hblob' = [hblob EXCEPT ![h] = nullptr]
  /\ hread' = [hread EXCEPT ![h] = "none"]
  /\ UNCHANGED << newVars, appPc, queue, events, hist, hop, hstage, hwin, hurl, hres,
                  ncalls, objs, structs, known, lastToolkit, appVars >>

(* ------------------------------- Window -------------------------------- *)

\* Calls of Window_new made so far.
WindowNewCalls ==
  Len(structs) +
  Cardinality({h \in Hosts : hop[h] = "Window_new" /\ hstage[h] = "blocked"})

\* lib.cpp 110-115, host thread: Window *win; runOnAppThread(app, ..., &win).
Window_new(h, start_url) ==
  /\ WindowNewCalls < MaxWindows
  /\ RunOnAppThread(h, "Window_new",
                    Event("Window_new", h, appRet, 0, 0, start_url))
  /\ hwin' = [hwin EXCEPT ![h] = Uninit]
  /\ hurl' = [hurl EXCEPT ![h] = start_url]
  /\ UNCHANGED << newVars, appPc, queue, hist, hres, hblob, hread, heapVars,
                  lastToolkit, appVars >>

\* A lambda that forgets to show the window.
WindowNewWidget_hidden(by) ==
  SetMinimumSize(Resize(NewWidget(by), DefaultWidth, DefaultHeight),
                 DefaultMinWidth, DefaultMinHeight)

\* lib.cpp 117-119, 129: the widget as the lambda leaves it.
WindowNewWidget(by) ==
  Show(SetMinimumSize(Resize(NewWidget(by), DefaultWidth, DefaultHeight),
                      DefaultMinWidth, DefaultMinHeight))

\* lib.cpp 131-135: new Window{w, layout, view}.
WindowStruct(w, layout, view) ==
  [window |-> w, window_layout |-> layout, web_engine_view |-> view]

\* lib.cpp 116-137, application thread: the lambda, and its result stored
\* through &win.
WindowNewLambda ==
  /\ Delivers("Window_new")
  /\ events' = Tail(events)
  /\ LET ev == Head(events)
         w == Len(objs) + 1
         layout == Len(objs) + 2
         view == Len(objs) + 3
     IN  /\ objs' = objs \o << WindowNewWidget(ev.caller),
                                NewLayout(ev.caller, w, view),
                                Load(NewView(ev.caller, w), ev.s) >>
         /\ structs' = Append(structs, WindowStruct(w, layout, view))
         /\ hwin' = [hwin EXCEPT ![ev.caller] = Len(structs) + 1]
         /\ hstage' = [hstage EXCEPT ![ev.caller] = "unblocked"]
         /\ lastToolkit' = Toolkit("Window_new", AppThread, ev.caller)
  /\ UNCHANGED << newVars, appPc, queue, hist, hop, hurl, hres, hblob, hread,
                  ncalls, known, blobs, badAccess, appVars >>

\* lib.cpp 139, host thread: return win.
Window_new_return(h) ==
  /\ hstage[h] = "unblocked"
  /\ hop[h] = "Window_new"
  /\ known' = known \cup {hwin[h]}
  /\ Resume(h)
  /\ UNCHANGED << newVars, appPc, queue, events, hist, hwin, hurl, hres, hblob,
                  hread, ncalls, objs, structs, blobs, badAccess, lastToolkit,
                  appVars >>

\* A bridge function that posts a lambda for an object of a returned Window.
ObjectCall(h, op, obj, x, y, s) ==
  /\ RunOnAppThread(h, op, Event(op, h, obj, x, y, s))
  /\ UNCHANGED << newVars, appPc, queue, hist, hwin, hurl, hres, hblob, hread,
                  heapVars, lastToolkit, appVars >>

\* The application thread runs the lambda of a void bridge function: the
\* toolkit call on the object, then the caller resumes.
ObjectLambda(op, after) ==
  /\ Delivers(op)
  /\ events' = Tail(events)
  /\ objs' = [objs EXCEPT ![Head(events).obj] = after]
  /\ lastToolkit' = Toolkit(op, AppThread, Head(events).caller)
  /\ Resume(Head(events).caller)
  /\ UNCHANGED << newVars, appPc, queue, hist, hwin, hurl, hres, hblob, hread,
                  ncalls, structs, known, blobs, badAccess >>

Target == objs[Head(events).obj]

\* lib.cpp 142-146
Window_set_title(h, title) ==
  \E p \in known :
    ObjectCall(h, "Window_set_title", structs[p].window, 0, 0, title)

SetTitleLambda ==
  /\ ObjectLambda("Window_set_title", SetWindowTitle(Target, Head(events).s))
  /\ UNCHANGED appVars

\* lib.cpp 148-151
Window_set_minimum_size(h, width, height) ==
  \E p \in known :
    ObjectCall(h, "Window_set_minimum_size", structs[p].window,
               width, height, "")

SetMinimumSizeLambda ==
  /\ ObjectLambda("Window_set_minimum_size",
                  SetMinimumSize(Target, Head(events).x, Head(events).y))
  /\ UNCHANGED appVars

\* A Window_resize that calls the toolkit on the calling thread.
Window_resize_direct(h, width, height) ==
  /\ hstage[h] = "idle"
  /\ newPc = "returned"
  /\ ncalls < MaxCalls
  /\ ncalls' = ncalls + 1
  /\ \E p \in known :
       objs' = [objs EXCEPT ![structs[p].window] = Resize(@, width, height)]
  /\ lastToolkit' = Toolkit("Window_resize", h, h)
  /\ UNCHANGED << newVars, appPc, queue, events, hist, hop, hstage, hwin, hurl,
                  hres, hblob, hread, structs, known, blobs, badAccess,
                  appVars >>

\* lib.cpp 153-156
Window_resize(h, width, height) ==
  \E p \in known :
    ObjectCall(h, "Window_resize", structs[p].window, width, height, "")

ResizeLambda ==
  /\ ObjectLambda("Window_resize",
                  Resize(Target, Head(events).x, Head(events).y))
  /\ UNCHANGED appVars

\* lib.cpp 158-161
Window_hide(h) ==
  \E p \in known : ObjectCall(h, "Window_hide", structs[p].window, 0, 0, "")

HideLambda ==
  /\ ObjectLambda("Window_hide", ShowMinimized(Target))
  /\ UNCHANGED appVars

\* lib.cpp 163-166
Window_show(h) ==
  \E p \in known : ObjectCall(h, "Window_show", structs[p].window, 0, 0, "")

ShowLambda ==
  /\ ObjectLambda("Window_show", ShowNormal(Target))
  /\ UNCHANGED appVars

\* lib.cpp 168-171
Window_fullscreen(h) ==
  \E p \in known :
    ObjectCall(h, "Window_fullscreen", structs[p].window, 0, 0, "")

FullscreenLambda ==
  /\ ObjectLambda("Window_fullscreen", ToggleFullScreen(Target))
  /\ UNCHANGED appVars

\* lib.cpp 173-176
Window_maximize(h) ==
  \E p \in known :
    ObjectCall(h, "Window_maximize", structs[p].window, 0, 0, "")

MaximizeLambda ==
  /\ ObjectLambda("Window_maximize", ToggleMaximized(Target))
  /\ UNCHANGED appVars

\* lib.cpp 178-181
Window_close(h) ==
  \E p \in known : ObjectCall(h, "Window_close", structs[p].window, 0, 0, "")

\* win->close(); closing the last visible window makes the application quit.
CloseLambda ==
  /\ ObjectLambda("Window_close", Close(Target))
  /\ quitFlag' = (quitFlag \/ ~WindowLeft(objs'))
  /\ quitCause' = IF ~quitFlag /\ ~WindowLeft(objs')
                  THEN "lastWindowClosed" ELSE quitCause
  /\ UNCHANGED << execRet, appExitedCalls, appExitedArg, appExitedThread >>

(* ---------------------------- WebEngineView ---------------------------- *)

\* lib.cpp 187-190
WebEngineView_load_url(h, url) ==
  \E p \in known :
    ObjectCall(h, "WebEngineView_load_url", structs[p].web_engine_view,
               0, 0, url)

LoadUrlLambda ==
  /\ ObjectLambda("WebEngineView_load_url", Load(Target, Head(events).s))
  /\ UNCHANGED appVars

\* lib.cpp 192-195
WebEngineView_reload(h) ==
  \E p \in known :
    ObjectCall(h, "WebEngineView_reload", structs[p].web_engine_view,
               0, 0, "")

ReloadLambda ==
  /\ ObjectLambda("WebEngineView_reload", Reload(Target))
  /\ UNCHANGED appVars

\* lib.cpp 197-206
WebEngineView_run_js(h, script) ==
  \E p \in known :
    ObjectCall(h, "WebEngineView_run_js", structs[p].web_engine_view,
               0, 0, script)

RunJsLambda ==
  /\ ObjectLambda("WebEngineView_run_js",
                  RunJavaScript(Target, Head(events).s))
  /\ UNCHANGED appVars

(* --------------------------- specification ----------------------------- *)

HostStep(h) ==
  \/ Application_new(h)
  \/ Application_quit(h)
  \/ Application_get_screens(h)
  \/ Application_get_screens_return(h)
  \/ HostReadBlob(h)
  \/ bye(h)
  \/ \E u \in Urls : Window_new(h, u)
  \/ Window_new_return(h)
  \/ \E t \in Titles : Window_set_title(h, t)
  \/ \E d \in Dims : Window_set_minimum_size(h, d[1], d[2])
  \/ \E d \in Dims : Window_resize(h, d[1], d[2])
  \/ Window_hide(h)
  \/ Window_show(h)
  \/ Window_fullscreen(h)
  \/ Window_maximize(h)
  \/ Window_close(h)
  \/ \E u \in Urls : WebEngineView_load_url(h, u)
  \/ WebEngineView_reload(h)
  \/ \E js \in Scripts : WebEngineView_run_js(h, js)

CallerStep ==
  \/ New_dequeue_app
  \/ New_singleShot
  \/ New_return

AppStep ==
  \/ AppThread_construct
  \/ AppThread_enqueue
  \/ AppThread_exec
  \/ AppThread_execReturn
  \/ AppThread_appExited
  \/ TimerCallback
  \/ QuitLambda
  \/ GetScreensLambda
  \/ WindowNewLambda
  \/ SetTitleLambda
  \/ SetMinimumSizeLambda
  \/ ResizeLambda
  \/ HideLambda
  \/ ShowLambda
  \/ FullscreenLambda
  \/ MaximizeLambda
  \/ CloseLambda
  \/ LoadUrlLambda
  \/ ReloadLambda
  \/ RunJsLambda

Next == (\E h \in Hosts : HostStep(h)) \/ CallerStep \/ AppStep

Spec == Init /\ [][Next]_vars

\* The application thread is a thread of the operating system: whatever step
\* it can take it eventually takes.
FairSpec == Spec /\ WF_vars(AppStep)

(* ------------------------------- claims -------------------------------- *)

Happened(m) == \E i \in 1..Len(hist) : hist[i] = m
Pos(m) == CHOOSE i \in 1..Len(hist) : hist[i] = m
StartupOrder == << "construct", "hand", "loop", "timer", "return" >>

\* C1: Application_new returns only after the QApplication was constructed on
\* the application thread and its event loop has run the zero-delay timer
\* callback: in every execution the application is constructed, then handed to
\* the caller (enqueued), then the event loop starts, then the timer callback
\* runs, then Application_new returns, with the address of that application.
C1_StartupOrder ==
  /\ \A j \in 2..Len(StartupOrder) :
       Happened(StartupOrder[j]) =>
         /\ Happened(StartupOrder[j - 1])
         /\ Pos(StartupOrder[j - 1]) < Pos(StartupOrder[j])
  /\ Happened("recv") => Happened("hand") /\ Pos("hand") < Pos("recv")
  /\ newPc = "returned" =>
       /\ Happened("return")
       /\ appRet = AppPtr
       /\ appPc \in {"exec", "exited", "done"}

\* Application_new has returned, and the caller took the pointer only after
\* the event loop had started.
C1_Witness ==
  /\ newPc = "returned"
  /\ Pos("loop") < Pos("recv")

\* C2: every toolkit call of a bridge operation runs on the application
\* thread, never on the host thread that called the bridge function, whichever
\* host thread that is.
C2_ToolkitOnAppThread ==
  lastToolkit.op # "none" =>
    /\ lastToolkit.thread = AppThread
    /\ lastToolkit.caller \in Hosts
    /\ lastToolkit.thread # lastToolkit.caller

\* A host thread other than the one that created the application and the
\* window resized the window.
C2_Witness ==
  /\ lastToolkit.op = "Window_resize"
  /\ lastToolkit.caller # newCaller
  /\ \E a \in 1..Len(objs) :
       objs[a].kind = "QWidget" /\ objs[a].by # lastToolkit.caller

C4_BlobStaysAllocated ==
  /\ ~badAccess
  /\ \A h \in Hosts :
       hblob[h] # nullptr =>
         /\ blobs[hblob[h]].live
         /\ blobs[hblob[h]].bytes = hres[h].text

\* C5 (safety): appExited is invoked at most once, on the application thread,
\* with the value exec() returned, only after the event loop has exited, which
\* takes a quit request (Application_quit, or the last window closed) made
\* after Application_new returned.
AppExitedSafe ==
  /\ appExitedCalls <= 1
  /\ (appExitedCalls = 0) = (appPc # "done")
  /\ appExitedCalls = 1 =>
       /\ appExitedThread = AppThread
       /\ execRet # -1
       /\ appExitedArg = execRet
       /\ quitFlag
       /\ quitCause \in {"Application_quit", "lastWindowClosed"}
       /\ newPc = "returned"
  /\ quitFlag => newPc = "returned"

\* C5: AppExitedSafe always holds, and once a running event loop has processed
\* a quit, appExited is eventually invoked.
C5_AppExited ==
  /\ []AppExitedSafe
  /\ (quitFlag /\ appPc = "exec") ~> (appExitedCalls = 1)

\* appExited was invoked after Application_quit made the loop exit.
C5_Witness ==
  /\ appExitedCalls = 1
  /\ quitCause = "Application_quit"

====
